---- MODULE Spec2Model ----
(***************************************************************************)
(* SegModel (src/models/segmentation_models.py): a LightningModule that    *)
(* builds one segmentation backbone at construction and exposes forward,   *)
(* configure_optimizers, training_step, validation_step and test_step.     *)
(*                                                                         *)
(* Tensors are finite arrays of small integers.  An image batch is a       *)
(* sequence of per-example pixel values, a mask batch a sequence of        *)
(* per-example labels (the mask has the shape of the logits and one value  *)
(* per example), logits are a B x C matrix.  Scalars produced by a mean    *)
(* reduction are exact fractions [num, den] in lowest terms; BCE values    *)
(* are in thousandths.  Python assertions are enabled.                     *)
(***************************************************************************)
EXTENDS Integers, Sequences, FiniteSets, TLC

VARIABLES pc, self, instantiated, last, again

vars == <<pc, self, instantiated, last, again>>

-----------------------------------------------------------------------------
(* Bounds of the model *)

MaxClasses == 2
MaxMetricChannels == 3
MaxBatch == 2
MaxExample == 1
MaxBatchIdx == 1

-----------------------------------------------------------------------------
(* Constructor arguments *)

SupportedNames == {"unet", "unet_resnet_backbone", "deeplabv3"}

ModelNames == SupportedNames \cup {"fcn_resnet50"}

DefaultLr == 1
DefaultNumLayers == 3
DefaultFeaturesStart == 64

\* lr is in units of 1e-3
HyperChoices ==
    { [lr |-> DefaultLr, num_layers |-> DefaultNumLayers,
       features_start |-> DefaultFeaturesStart, bilinear |-> FALSE],
      [lr |-> 10, num_layers |-> 5, features_start |-> 32, bilinear |-> TRUE] }

\* seg_metric: a caller-supplied function (predictions, mask) -> B x C scores,
\* identified here by the number C of score channels it produces
Metrics == { [channels |-> k] : k \in 1..MaxMetricChannels }

-----------------------------------------------------------------------------
(* Batches: contiguous chunks of a dataset of (image, mask) examples *)

Pixel(e) == e

Label(e) == e % 2

Chunk(i, n) == [k \in 1..n |-> i + k - 1]

Batches ==
    { [img |-> [k \in 1..n |-> Pixel(Chunk(i, n)[k])],
       mask |-> [k \in 1..n |-> Label(Chunk(i, n)[k])]] :
        <<i, n>> \in { p \in (0..MaxExample) \X (1..MaxBatch) :
                          p[1] + p[2] - 1 <= MaxExample } }

ValBatches ==
    { [loader_val_source |-> s, loader_target_test |-> t] :
        <<s, t>> \in Batches \X Batches }

BatchIdxs == 0..MaxBatchIdx

-----------------------------------------------------------------------------
(* Arithmetic on tensors *)

RECURSIVE SumSeq(_)
SumSeq(s) == IF s = <<>> THEN 0 ELSE Head(s) + SumSeq(Tail(s))

RECURSIVE GCD(_, _)
GCD(a, b) == IF b = 0 THEN a ELSE GCD(b, a % b)

Abs(x) == IF x < 0 THEN -x ELSE x

Max(a, b) == IF a >= b THEN a ELSE b

\* a scalar tensor holding num/den, in lowest terms
Scalar(num, den) ==
    LET g == GCD(Abs(num), den)
    IN  [num |-> num \div g, den |-> den \div g]

\* torch.mean(t, dim=0) of a one-dimensional tensor
mean(t) == Scalar(SumSeq(t), Len(t))

-----------------------------------------------------------------------------
(* Backbones *)

NoNet == [kind |-> "none", out_channels |-> 0]

\* models.UNet.UNet: final 1x1 convolution with num_classes output channels
UNet(num_classes, num_layers, features_start, bilinear) ==
    [kind |-> "UNet", out_channels |-> num_classes]

\* models.UNet.UNET_ResNet18
UNET_ResNet18(num_classes) ==
    [kind |-> "UNET_ResNet18", out_channels |-> num_classes]

\* torchvision DeepLabHead(in_channels, num_classes): num_classes output channels
DeepLabHead(in_channels, num_classes) == num_classes

createDeepLabv3 ==
    [kind |-> "DeepLabV3", out_channels |-> DeepLabHead(2048, 1)]

\* The (fixed, un-updated) weights of each backbone kind
Weights(kind) ==
    CASE kind = "UNet" -> 0
      [] kind = "UNET_ResNet18" -> 1
      [] OTHER -> 2

\* A B x C matrix of logits in {-1, 0, 1}
Logits(net, x, head) ==
    [b \in 1..Len(x) |->
        [c \in 1..net.out_channels |->
            ((x[b] + c + Weights(net.kind) + head) % 3) - 1]]

\* self.net(x): DeepLabv3 returns a mapping with the keys 'out' and 'aux',
\* the U-Nets return the tensor
net_call(net, x) ==
    IF net.kind = "DeepLabV3"
    THEN [out |-> Logits(net, x, 0), aux |-> Logits(net, x, 1)]
    ELSE Logits(net, x, 0)

-----------------------------------------------------------------------------
(* Library functions used by the steps *)

\* 1000 * log(1 + exp(-|x|)) for x in {-1, 0, 1}
Softplus(x) == IF x = 0 THEN 693 ELSE 313

\* 1000 * (max(x, 0) - x * z + log(1 + exp(-|x|)))
BceElem(x, z) == 1000 * (Max(x, 0) - x * z) + Softplus(x)

\* F.binary_cross_entropy_with_logits(input, target), reduction = mean
binary_cross_entropy_with_logits(input, target) ==
    Scalar(SumSeq([b \in 1..Len(input) |->
                     SumSeq([c \in 1..Len(input[b]) |->
                               BceElem(input[b][c], target[b])])]),
           Len(input) * Len(input[1]))

\* img.float(): a dtype cast, the values are unchanged
float(img) == [b \in 1..Len(img) |-> img[b]]

\* self.dice_coeff(seg_out, mask): per-example, per-channel scores, B x C
dice_coeff(metric, seg_out, mask) ==
    [b \in 1..Len(seg_out) |->
        [k \in 1..metric.channels |->
            (SumSeq(seg_out[b]) + Len(seg_out[b]) + 2 * mask[b] + k) % 5]]

\* values[:, idx] raises IndexError unless -C <= idx < C
IndexInRange(values, idx) ==
    LET C == Len(values[1])
    IN  IF idx < 0 THEN C + idx >= 0 ELSE idx < C

\* values[:, idx] (Python indices count from 0, negative ones from the end)
Select(values, idx) ==
    LET C == Len(values[1])
        j == IF idx < 0 THEN C + idx ELSE idx
    IN  [b \in 1..Len(values) |-> values[b][j + 1]]

-----------------------------------------------------------------------------
(* What a method call leaves behind: the object after it, the value        *)
(* returned or the exception raised, the measurements passed to self.log,  *)
(* and the logits the call obtained                                        *)

Returned(v) == [kind |-> "returned", value |-> v]

Raised(e) == [kind |-> "raised", value |-> [exception |-> e]]

\* self.log(name, value, prog_bar=False, on_epoch=None, sync_dist=False)
Log(name, value, prog_bar, on_epoch, sync_dist) ==
    [name |-> name, value |-> value, prog_bar |-> prog_bar,
     on_epoch |-> on_epoch, sync_dist |-> sync_dist]

Call(step, object, batch, logits, emitted, result) ==
    [step |-> step, object |-> object, batch |-> batch, logits |-> logits,
     emitted |-> emitted, result |-> result]

-----------------------------------------------------------------------------
(* SegModel.__init__ *)

NoHparams ==
    [model_name |-> "", seg_metric |-> [channels |-> 0], num_classes |-> 0,
     lr |-> 0, num_layers |-> 0, features_start |-> 0, bilinear |-> FALSE]

NoSelf ==
    [num_classes |-> 0, lr |-> 0, model_name |-> "", num_layers |-> 0,
     features_start |-> 0, bilinear |-> FALSE, dice_coeff |-> [channels |-> 0],
     net |-> NoNet, hparams |-> NoHparams]

NoCall ==
    Call("none", NoSelf, <<>>, <<>>, <<>>, [kind |-> "none", value |-> <<>>])

\* A plausible slip: the second statement tests for anything but deeplabv3,
\* so "unet" builds a second backbone over the first
SelectBackbone_twice(model_name, num_classes, num_layers, features_start, bilinear) ==
    LET in_if == IF model_name = "unet"
                 THEN <<UNet(num_classes, num_layers, features_start, bilinear)>>
                 ELSE <<>>
        in_chain == IF model_name # "deeplabv3"
                    THEN [built |-> <<UNET_ResNet18(num_classes)>>, asserted |-> FALSE]
                    ELSE [built |-> <<createDeepLabv3>>, asserted |-> FALSE]
        built == in_if \o in_chain.built
    IN  [net |-> built[Len(built)], instantiated |-> Len(built),
         asserted |-> in_chain.asserted]

\* The `if` on "unet" followed by the separate if / elif / else chain: the
\* backbones instantiated in order, the one left in self.net, and whether
\* `assert False, "No model selected"` was reached
SelectBackbone(model_name, num_classes, num_layers, features_start, bilinear) ==
    LET in_if == IF model_name = "unet"
                 THEN <<UNet(num_classes, num_layers, features_start, bilinear)>>
                 ELSE <<>>
        in_chain == IF model_name = "unet_resnet_backbone"
                    THEN [built |-> <<UNET_ResNet18(num_classes)>>, asserted |-> FALSE]
                    ELSE IF model_name = "deeplabv3"
                    THEN [built |-> <<createDeepLabv3>>, asserted |-> FALSE]
                    ELSE [built |-> <<>>, asserted |-> TRUE]
        built == in_if \o in_chain.built
    IN  [net |-> IF built = <<>> THEN NoNet ELSE built[Len(built)],
         instantiated |-> Len(built),
         asserted |-> in_chain.asserted]

\* The object after __init__ ran (to its end, or up to the failed assertion,
\* which leaves save_hyperparameters uncalled), and whether it returned
SegModel_init(model_name, seg_metric, num_classes, lr, num_layers, features_start, bilinear) ==
    LET sel == SelectBackbone(model_name, num_classes, num_layers,
                              features_start, bilinear)
        args == [model_name |-> model_name, seg_metric |-> seg_metric,
                 num_classes |-> num_classes, lr |-> lr,
                 num_layers |-> num_layers, features_start |-> features_start,
                 bilinear |-> bilinear]
    IN  [object |-> [num_classes |-> num_classes, lr |-> lr,
                     model_name |-> model_name, num_layers |-> num_layers,
                     features_start |-> features_start, bilinear |-> bilinear,
                     dice_coeff |-> seg_metric, net |-> sel.net,
                     hparams |-> IF sel.asserted THEN NoHparams ELSE args],
         instantiated |-> sel.instantiated,
         returned |-> ~sel.asserted]

-----------------------------------------------------------------------------
(* SegModel methods; slf is the module object *)

\* A plausible slip: the auxiliary head's output is taken
forward_aux(slf, x) ==
    IF slf.model_name = "deeplabv3"
    THEN net_call(slf.net, x).aux
    ELSE net_call(slf.net, x)

forward(slf, x) ==
    IF slf.model_name = "deeplabv3"
    THEN net_call(slf.net, x).out
    ELSE net_call(slf.net, x)

\* torch.optim.Adam(self.net.parameters(), lr=self.lr)
configure_optimizers(slf) ==
    Call("configure_optimizers", slf, <<>>, <<>>, <<>>,
         Returned([optimizer |-> "Adam", params |-> slf.net, lr |-> slf.lr]))

TrainName == "Binary Cross Entropy Loss - Training"
ValLossName == "Validation Loss - Source Data"
ValDiceName == "Dice Score - Source Data"
TargetDiceName == "Dice Score on Target Test Data"
FinalDiceName == "FINAL Dice Score on Target Test Data"

\* A plausible slip: the loss is weighted by the position of the batch in
\* the epoch
training_step_by_index(slf, batch, batch_nb) ==
    LET img == float(batch.img)
        mask == batch.mask
        out == forward(slf, img)
        bce == binary_cross_entropy_with_logits(out, mask)
        loss == Scalar(bce.num * (batch_nb + 1), bce.den)
        log_dict == [k \in {"Binary Cross Entropy Loss"} |-> loss]
    IN  Call("training_step", slf, batch, <<out>>,
             <<Log(TrainName, loss, FALSE, FALSE, FALSE)>>,
             Returned([loss |-> loss, log |-> log_dict, progress_bar |-> log_dict]))

\* A plausible slip: the logging payload holds the loss against an empty mask
training_step_stale_log(slf, batch, batch_nb) ==
    LET img == float(batch.img)
        mask == batch.mask
        out == forward(slf, img)
        loss == binary_cross_entropy_with_logits(out, mask)
        zeros == [b \in 1..Len(mask) |-> 0]
        log_dict == [k \in {"Binary Cross Entropy Loss"} |->
                        binary_cross_entropy_with_logits(out, zeros)]
    IN  Call("training_step", slf, batch, <<out>>,
             <<Log(TrainName, loss, FALSE, FALSE, FALSE)>>,
             Returned([loss |-> loss, log |-> log_dict, progress_bar |-> log_dict]))

training_step(slf, batch, batch_nb) ==
    LET img == float(batch.img)
        mask == batch.mask
        out == forward(slf, img)
        loss == binary_cross_entropy_with_logits(out, mask)
        log_dict == [k \in {"Binary Cross Entropy Loss"} |-> loss]
    IN  Call("training_step", slf, batch, <<out>>,
             <<Log(TrainName, loss, FALSE, FALSE, FALSE)>>,
             Returned([loss |-> loss, log |-> log_dict, progress_bar |-> log_dict]))

\* The body of validation_step with the channel index, the mask used for the
\* target metric and the target measurement's sync_dist flag as parameters
validation_body(slf, batch, idx, target_mask, sync) ==
    LET batch_source == batch.loader_val_source
        batch_target == batch.loader_target_test
        seg_out_s == forward(slf, batch_source.img)
        loss_val == binary_cross_entropy_with_logits(seg_out_s, batch_source.mask)
        dice_s == dice_coeff(slf.dice_coeff, seg_out_s, batch_source.mask)
        seg_out_t == forward(slf, batch_target.img)
        dice_t == dice_coeff(slf.dice_coeff, seg_out_t, target_mask)
        logs_s == <<Log(ValLossName, loss_val, TRUE, TRUE, FALSE),
                    Log(ValDiceName, mean(Select(dice_s, idx)), TRUE, TRUE, FALSE)>>
    IN  IF ~IndexInRange(dice_s, idx)
        THEN Call("validation_step", slf, batch, <<seg_out_s>>, <<>>,
                  Raised("IndexError"))
        ELSE IF ~IndexInRange(dice_t, idx)
        THEN Call("validation_step", slf, batch, <<seg_out_s, seg_out_t>>, logs_s,
                  Raised("IndexError"))
        ELSE Call("validation_step", slf, batch, <<seg_out_s, seg_out_t>>,
                  logs_s \o <<Log(TargetDiceName, mean(Select(dice_t, idx)),
                                  TRUE, TRUE, sync)>>,
                  Returned([val_loss |-> loss_val]))

\* A plausible slip: the last channel is selected
validation_step_last_channel(slf, batch, batch_idx) ==
    validation_body(slf, batch, -1, batch.loader_target_test.mask, TRUE)

\* A plausible slip: `img, mask = batch_target` rebinds img only
validation_step_source_mask(slf, batch, batch_idx) ==
    LET n == Len(batch.loader_target_test.img)
        m == batch.loader_val_source.mask
    IN  validation_body(slf, batch, -2,
                        [b \in 1..n |-> m[((b - 1) % Len(m)) + 1]], TRUE)

\* A plausible slip: sync_dist is left out of the target measurement
validation_step_no_sync(slf, batch, batch_idx) ==
    validation_body(slf, batch, -2, batch.loader_target_test.mask, FALSE)

validation_step(slf, batch, batch_idx) ==
    validation_body(slf, batch, -2, batch.loader_target_test.mask, TRUE)

\* A plausible slip: the first channel is selected
test_step_first_channel(slf, batch, batch_idx) ==
    LET seg_out == forward(slf, batch.img)
        dice_coeff_values == dice_coeff(slf.dice_coeff, seg_out, batch.mask)
        curr_mean_dice == mean(Select(dice_coeff_values, 0))
    IN  Call("test_step", slf, batch, <<seg_out>>,
             <<Log(FinalDiceName, curr_mean_dice, TRUE, TRUE, TRUE)>>,
             Returned([curr_mean_dice |-> curr_mean_dice]))

test_step(slf, batch, batch_idx) ==
    LET img == batch.img
        mask == batch.mask
        seg_out == forward(slf, img)
        dice_coeff_values == dice_coeff(slf.dice_coeff, seg_out, mask)
        curr_mean_dice == mean(Select(dice_coeff_values, -2))
    IN  IF ~IndexInRange(dice_coeff_values, -2)
        THEN Call("test_step", slf, batch, <<seg_out>>, <<>>, Raised("IndexError"))
        ELSE Call("test_step", slf, batch, <<seg_out>>,
                  <<Log(FinalDiceName, curr_mean_dice, TRUE, TRUE, TRUE)>>,
                  Returned([curr_mean_dice |-> curr_mean_dice]))

-----------------------------------------------------------------------------
(* The state machine: one module object, constructed once, then driven by  *)
(* the training loop, which calls its methods in any order                 *)

Init ==
    /\ pc = "init"
    /\ self = NoSelf
    /\ instantiated = 0
    /\ last = NoCall
    /\ again = FALSE

\* SegModel(model_name, seg_metric, num_classes, lr, ...)
Construct ==
    /\ pc = "init"
    /\ \E model_name \in ModelNames, seg_metric \in Metrics,
          num_classes \in 1..MaxClasses, h \in HyperChoices :
          LET r == SegModel_init(model_name, seg_metric, num_classes, h.lr,
                                 h.num_layers, h.features_start, h.bilinear)
          IN  /\ self' = r.object
              /\ instantiated' = r.instantiated
              /\ pc' = IF r.returned THEN "ready" ELSE "aborted"
    /\ UNCHANGED <<last, again>>

\* A method call on the constructed module: the object is left as the
\* method leaves it, and the call is recorded as the latest one, with
\* whether it repeats the method and the batch of the call before it
Invoke(call) ==
    /\ pc = "ready"
    /\ self' = call.object
    /\ last' = call
    /\ again' = (call.step = last.step /\ call.batch = last.batch)
    /\ UNCHANGED <<pc, instantiated>>

Forward ==
    \E batch \in Batches :
        Invoke(Call("forward", self, batch, <<forward(self, batch.img)>>, <<>>,
                    Returned(forward(self, batch.img))))

ConfigureOptimizers == Invoke(configure_optimizers(self))

TrainingStep ==
    \E batch \in Batches, batch_nb \in BatchIdxs :
        Invoke(training_step(self, batch, batch_nb))

ValidationStep ==
    \E batch \in ValBatches, batch_idx \in BatchIdxs :
        Invoke(validation_step(self, batch, batch_idx))

TestStep ==
    \E batch \in Batches, batch_idx \in BatchIdxs :
        Invoke(test_step(self, batch, batch_idx))

Next ==
    \/ Construct
    \/ Forward
    \/ ConfigureOptimizers
    \/ TrainingStep
    \/ ValidationStep
    \/ TestStep

Spec == Init /\ [][Next]_vars

-----------------------------------------------------------------------------
(* What the claims speak of *)

Ready == pc = "ready"

StepNames == {"training_step", "validation_step", "test_step"}

ReturnedFrom(step) ==
    Ready /\ last.step = step /\ last.result.kind = "returned"

RaisedFrom(step) ==
    Ready /\ last.step = step /\ last.result.kind = "raised"

\* The segmentation logits of the module's backbone for an image batch
SegLogits(img) == Logits(self.net, img, 0)

\* BCE-with-logits of the module's segmentation logits against the mask
BceOf(batch) == binary_cross_entropy_with_logits(SegLogits(batch.img), batch.mask)

\* Mean over the batch of the second-to-last channel of the metric's output
\* (which has one only if it has at least two channels)
DiceOf(batch) ==
    LET d == dice_coeff(self.dice_coeff, SegLogits(batch.img), batch.mask)
        C == self.dice_coeff.channels
    IN  Scalar(SumSeq([b \in 1..Len(d) |-> d[b][C - 1]]), Len(d))

IsScalar(v) == DOMAIN v = {"num", "den"}

Names(emitted) == [i \in 1..Len(emitted) |-> emitted[i].name]

\* The image batches a call passes through the network, in order
ImagesOf(call) ==
    IF call.step = "validation_step"
    THEN IF call.emitted = <<>>
         THEN <<call.batch.loader_val_source.img>>
         ELSE <<call.batch.loader_val_source.img, call.batch.loader_target_test.img>>
    ELSE IF call.step \in {"forward", "training_step", "test_step"}
    THEN <<call.batch.img>>
    ELSE <<>>

-----------------------------------------------------------------------------
(* C1 *)

\* C1: construction with "unet", "unet_resnet_backbone" or "deeplabv3"
\* succeeds and leaves a backbone in self.net; with any other string it
\* aborts and yields no module.
C1_ConstructionFollowsName ==
    pc # "init" =>
        /\ self.model_name \in SupportedNames => (Ready /\ self.net # NoNet)
        /\ self.model_name \notin SupportedNames => pc = "aborted"

-----------------------------------------------------------------------------
(* C2 *)

\* C2: the backbone built at construction has exactly num_classes output
\* channels, so every logits tensor obtained through forward has num_classes
\* channels (deeplabv3 included).
C2_OutputChannelsAreNumClasses ==
    Ready =>
        /\ self.net.out_channels = self.num_classes
        /\ \A i \in DOMAIN last.logits :
              \A b \in DOMAIN last.logits[i] :
                  Len(last.logits[i][b]) = self.num_classes

-----------------------------------------------------------------------------
(* C3 *)

\* C3 as stated: training_step returns the BCE-with-logits loss of
\* forward(image) against mask, emits "Binary Cross Entropy Loss - Training"
\* with that loss, and its logging payload holds exactly the key
\* "Binary Cross Entropy Loss - Training", mapped to that loss.
C3_TrainingPayloadKeyedAsMeasurement ==
    ReturnedFrom("training_step") =>
        LET r == last.result.value
        IN  /\ r.loss = BceOf(last.batch)
            /\ Names(last.emitted) = <<TrainName>>
            /\ last.emitted[1].value = r.loss
            /\ DOMAIN r.log = {TrainName}
            /\ r.log[TrainName] = r.loss

\* C3 as amended: the same, with the logging payload holding exactly the key
\* "Binary Cross Entropy Loss", mapped to that loss.
C3_TrainingStepResult ==
    ReturnedFrom("training_step") =>
        LET r == last.result.value
        IN  /\ r.loss = BceOf(last.batch)
            /\ Names(last.emitted) = <<TrainName>>
            /\ last.emitted[1].value = r.loss
            /\ DOMAIN r.log = {"Binary Cross Entropy Loss"}
            /\ r.log["Binary Cross Entropy Loss"] = r.loss

\* A training step on a two-example batch whose labels differ has returned
C3_Witness ==
    /\ ReturnedFrom("training_step")
    /\ Len(last.batch.img) = 2
    /\ last.batch.mask[1] # last.batch.mask[2]
    /\ last.result.value.loss.num > 0

-----------------------------------------------------------------------------
(* C4 *)

\* A test or validation call on a module whose metric keeps its contract:
\* its output has a second-to-last channel
CalledWithMetric(step) ==
    Ready /\ last.step = step /\ self.dice_coeff.channels >= 2

-----------------------------------------------------------------------------
(* C5 *)

-----------------------------------------------------------------------------
(* C6 *)

\* C6: the logits of every forward, training, validation and test call are
\* the backbone's output taken under the key 'out' if the module's
\* model_name is "deeplabv3", and the backbone's output unchanged otherwise;
\* a direct forward call returns exactly those logits.
C6_ForwardExtractsOutForDeepLabOnly ==
    Ready /\ last.step \in StepNames \cup {"forward"} =>
        LET imgs == ImagesOf(last)
        IN  /\ Len(last.logits) = Len(imgs)
            /\ \A i \in 1..Len(imgs) :
                  LET y == net_call(self.net, imgs[i])
                  IN  /\ self.model_name = "deeplabv3" => last.logits[i] = y.out
                      /\ self.model_name # "deeplabv3" => last.logits[i] = y
            /\ last.step = "forward" => last.result.value = last.logits[1]

\* A validation step of a deeplabv3 module has returned
C6_Witness ==
    /\ ReturnedFrom("validation_step")
    /\ self.model_name = "deeplabv3"
    /\ Len(last.logits) = 2

-----------------------------------------------------------------------------
(* C7 *)

-----------------------------------------------------------------------------
(* C8 *)

\* C8: at most one backbone is ever instantiated for the module and exactly
\* one once construction has succeeded; it is the one model_name selects, so
\* the forward path taken follows from model_name; and after construction no
\* method call reassigns self.net, self.model_name or any other field.
C8_OneBackboneNeverSwapped ==
    /\ [](/\ instantiated <= 1
          /\ Ready =>
                /\ instantiated = 1
                /\ self.net # NoNet
                /\ (self.model_name = "deeplabv3") <=> (self.net.kind = "DeepLabV3")
                /\ self.model_name = self.hparams.model_name)
    /\ [][Ready => self' = self]_vars

\* The optimizer was configured on a constructed module
C8_Witness ==
    /\ Ready
    /\ last.step = "configure_optimizers"
    /\ last.result.value.params = self.net

-----------------------------------------------------------------------------
(* C9 *)

\* C9 as stated: with num_classes = 1, validation_step and test_step never
\* fail with an index error on channel -2 of the metric's output.
C9_NoIndexErrorWithOneClass ==
    (Ready /\ self.num_classes = 1 /\ last.step \in {"validation_step", "test_step"})
        => last.result.kind = "returned"

\* C9 as amended: with num_classes = 1, validation_step and test_step fail
\* with an index error exactly when the metric's output has fewer than two
\* channels, and they then emit nothing.
C9_IndexErrorIffOneChannel ==
    (Ready /\ self.num_classes = 1 /\ last.step \in {"validation_step", "test_step"})
        => /\ (last.result = Raised("IndexError")) <=> (self.dice_coeff.channels < 2)
           /\ (last.result.kind = "returned") <=> (self.dice_coeff.channels >= 2)
           /\ last.result.kind = "raised" => last.emitted = <<>>

\* A validation step of a one-class module failed on a one-channel metric
C9_Witness ==
    /\ RaisedFrom("validation_step")
    /\ self.num_classes = 1
    /\ self.dice_coeff.channels = 1

-----------------------------------------------------------------------------
(* C10 *)

\* C10: a measurement requests cross-worker synchronization exactly if it is
\* "Dice Score on Target Test Data" or "FINAL Dice Score on Target Test
\* Data", both of which are reported per epoch; the training measurement is
\* the only one not tagged per-epoch.
C10_SyncOnTargetDiceOnly ==
    Ready =>
        \A i \in DOMAIN last.emitted :
            LET e == last.emitted[i]
            IN  /\ e.name \in {TrainName, ValLossName, ValDiceName,
                               TargetDiceName, FinalDiceName}
                /\ e.sync_dist <=> e.name \in {TargetDiceName, FinalDiceName}
                /\ e.on_epoch <=> e.name # TrainName

\* A validation step has emitted its synchronized and unsynchronized measurements
C10_Witness ==
    /\ ReturnedFrom("validation_step")
    /\ Len(last.emitted) = 3
    /\ last.emitted[3].sync_dist
    /\ ~last.emitted[1].sync_dist

====
